---------------------------- MODULE Spec2Model ----------------------------
(***************************************************************************)
(* The metadata package assembly and deployment pipeline of salesforcemcp: *)
(* the two deployment tool operations of implementations.py and the        *)
(* functions of sfdc_client.py they call (package build, zip, base64,      *)
(* SOAP deploy), over the files they keep under BASE_PATH.                 *)
(*                                                                         *)
(* One request is in flight at a time (server.py dispatches one tool call  *)
(* at a time).  A request runs as a sequence of steps, one action per      *)
(* function of the source; what the environment decides (whether a file    *)
(* operation fails, what the server answers) is chosen by \E in the step   *)
(* where the code meets it.                                                *)
(*                                                                         *)
(* Appends to mylog.txt and check.txt are taken to succeed; the writes of  *)
(* deploy.log and deploy_http.log, every step of the two builds, the       *)
(* removal of the staging directories, the archive steps and the POST may  *)
(* fail.                                                                   *)
(*                                                                         *)
(* Three specifications share the state:                                   *)
(*   Spec     the deployment pipeline, as above;                           *)
(*   OrgSpec  an OrgHandler under any sequence of establish_connection     *)
(*            and the read-path tool operations, with its metadata cache;  *)
(*   EncSpec  the field encoder of create_metadata_package applied to one  *)
(*            field drawn from a bounded set.                              *)
(***************************************************************************)
EXTENDS Integers, Sequences, FiniteSets, TLC

(* ------------------------------ bounds -------------------------------- *)

\* Number of tool requests in one behaviour.
MaxRequests == 2

\* Number of calls of get_object_fields_cached in one behaviour of OrgSpec.
MaxCalls == 2

\* Length of the longest picklist_values drawn in EncSpec.
MaxValues == 2

(* ----------------------------- constants ------------------------------ *)

\* response.status_code >= 400 is a fault.
FaultStatus == 400

\* response.text[:500]
ExcerptLen == 500

None == "None"

\* A path that holds no directory or no file.
NoDir == [exists |-> FALSE, files |-> {}]
NoFile == [exists |-> FALSE, entries |-> {}, by |-> 0]

Dir(fs) == [exists |-> TRUE, files |-> fs]

(* ----------------------------- tool names ----------------------------- *)

ObjectTool == "create_object_with_fields"
EinsteinTool == "create_einstein_model"

(* ------------------------------- state -------------------------------- *)

VARIABLES
    connection,  \* OrgHandler.connection
    current,     \* BASE_PATH/current, the custom-object staging directory
    deployDir,   \* BASE_PATH/deployment_package, the Einstein staging directory
    packZip,     \* BASE_PATH/pack.zip
    deployZip,   \* BASE_PATH/deploy_package.zip
    mylog,       \* BASE_PATH/mylog.txt: the requests that appended to it
    checkTxt,    \* BASE_PATH/check.txt: the error entries appended to it
    deployLog,   \* BASE_PATH/deploy.log: the request whose envelope it holds
    httpLog,     \* BASE_PATH/deploy_http.log: the request whose response it holds
    req,         \* the request in flight (id 0: none yet)
    pc,          \* where the request in flight stands
    sf,          \* deploy's argument sf
    b64,         \* deploy's argument b64
    resp,        \* deploy's local response
    posts,       \* the POSTs issued for the request in flight, in order
    buildErr,    \* the step at which this request's build failed, or None
    zipped,      \* the files this request's archive step packaged
    logFail,     \* the diagnostic log writes of deploy that failed in this request
    deployOut,   \* how deploy ended in this request: returned, or what it raised
    result,      \* what the tool operation returned or raised
    metadata_cache, \* OrgHandler.metadata_cache
    calls,       \* the calls of get_object_fields_cached so far, in order
    field,       \* the field handed to the field encoder
    encoded,     \* what the field encoder made of it
    json_obj,    \* the json_obj handed to create_einstein_model_package
    fields_json, \* what build_einstein_fields_json made of its fields
    outcome_label, \* the value ModelSetup.json's ##outcome_label## is given
    proc,        \* the server processes that share BASE_PATH: where each stands
    substitution, \* a template and the values its placeholders are replaced with
    rendered,    \* the template after the replace calls
    request,     \* the request object handed to the bridge's mcp_http
    reply        \* what mcp_http came to: a body, or an exception

fsVars == <<current, deployDir, packZip, deployZip>>
logVars == <<mylog, checkTxt, deployLog, httpLog>>
callVars == <<sf, b64, resp, posts, buildErr, zipped, logFail, deployOut>>
orgVars == <<metadata_cache, calls>>
encVars == <<field, encoded>>
einVars == <<json_obj, fields_json, outcome_label>>
\* The state of the parts that have a specification of their own.
concVars == <<proc>>
tmplVars == <<substitution, rendered>>
bridgeVars == <<request, reply>>
partVars == <<einVars, concVars, tmplVars, bridgeVars>>
\* The state of the deployment pipeline, the OrgHandler and the encoder.
coreVars == <<connection, fsVars, logVars, req, pc, callVars, result, orgVars,
              encVars>>
vars == <<coreVars, partVars>>

(* ------------------------------ results ------------------------------- *)

NoDetail == [form |-> "none", code |-> None, text |-> None, status |-> 0,
             excerpt |-> <<>>]

Exc(type, msg) == [type |-> type, msg |-> msg, detail |-> NoDetail]

NoExc == Exc(None, None)

NoResult == [kind |-> "none", text |-> None, exc |-> Exc(None, None)]
Text(t) == [kind |-> "text", text |-> t, exc |-> Exc(None, None)]
Raised(e) == [kind |-> "raised", text |-> None, exc |-> e]

\* The texts the two operations return.
NotActive == "Salesforce connection is not active. Cannot perform metadata deployment."
MissingRequired == "Missing required fields"
Initiated == "creation package prepared and deployment initiated."
EinsteinError == "Error creating Einstein Studio model"

\* The message prefixes deploy raises with.
MsgInvalidConnection == "Deployment failed: Invalid Salesforce connection."
MsgNoInstance == "Could not retrieve instance URL from Salesforce connection."
MsgInvalidPackage == "Deployment failed: Invalid package data."
MsgNetwork == "Deployment failed: Network error contacting Salesforce API."
MsgApiFailed == "Salesforce deployment API call failed"


(* --------------------- the response of the server --------------------- *)

SoapNs == "http://schemas.xmlsoap.org/soap/envelope/"
OtherNs == "http://www.w3.org/2003/05/soap-envelope"
NoNs == ""

\* An element of a parsed document: xml.etree.ElementTree.Element.
El(ns, tag, text, kids) == [ns |-> ns, tag |-> tag, text |-> text, kids |-> kids]

\* The proper descendants of the elements ks' parents, in document order:
\* what the path './/' of Element.find walks.
RECURSIVE DescSeq(_)
DescSeq(ks) ==
    IF ks = <<>> THEN <<>>
    ELSE <<Head(ks)>> \o DescSeq(Head(ks).kids) \o DescSeq(Tail(ks))

NotFound == [found |-> FALSE, el |-> El(NoNs, None, "", <<>>)]

\* root.find('.//{ns}tag'): the first descendant of root, root excluded.
Find(root, ns, tag) ==
    LET hits == SelectSeq(DescSeq(root.kids),
                          LAMBDA e : e.ns = ns /\ e.tag = tag)
    IN  IF hits = <<>> THEN NotFound ELSE [found |-> TRUE, el |-> Head(hits)]

\* el.findtext('{*}tag'): the text of the first child named tag in any
\* namespace ('' for an empty one), None when there is no such child.
FindText(el, tag) ==
    LET hits == SelectSeq(el.kids, LAMBDA e : e.tag = tag)
    IN  IF hits = <<>> THEN None ELSE Head(hits).text

\* ET.fromstring(response.text): the document, or ParseError.
Parsed(body) == IF body.wf THEN "ok" ELSE "ParseError"

\* response.text[:500]
Excerpt(raw) == SubSeq(raw, 1, IF Len(raw) < ExcerptLen THEN Len(raw) ELSE ExcerptLen)

Detail(form, code, text, status, excerpt) ==
    [form |-> form, code |-> code, text |-> text, status |-> status,
     excerpt |-> excerpt]

\* The faultcode looked up anywhere below the Fault element instead of
\* among its children.
FaultMessageDeep(response) ==
    CASE Parsed(response.body) = "ok" ->
            LET fault == Find(response.body.root, SoapNs, "Fault")
            IN  IF fault.found
                THEN Detail("soap",
                            FindText([kids |-> DescSeq(fault.el.kids)], "faultcode"),
                            FindText(fault.el, "faultstring"),
                            response.status, <<>>)
                ELSE Detail("generic", None, None, response.status, <<>>)
      [] OTHER -> Detail("notxml", None, None, response.status, <<>>)

\* fault_message of deploy, lines 208-220.
FaultMessage(response) ==
    CASE Parsed(response.body) = "ok" ->
            LET fault == Find(response.body.root, SoapNs, "Fault")
            IN  IF fault.found
                THEN Detail("soap", FindText(fault.el, "faultcode"),
                            FindText(fault.el, "faultstring"),
                            response.status, <<>>)
                ELSE Detail("generic", None, None, response.status, <<>>)
      [] Parsed(response.body) = "ParseError" ->
            Detail("notxml", None, None, response.status, <<>>)
      [] OTHER ->
            Detail("excerpt", None, None, response.status,
                   Excerpt(response.body.raw))

(* The bodies the server is taken to answer with. *)

XmlBody(root) == [wf |-> TRUE, root |-> root, raw |-> <<"<", "x", "m", "l", ">">>]

Envelope(bodyKids) ==
    El(SoapNs, "Envelope", "", <<El(SoapNs, "Body", "", bodyKids)>>)

\* A fault as Salesforce sends it.
SessionFault ==
    El(SoapNs, "Fault", "",
       <<El(NoNs, "faultcode", "INVALID_SESSION_ID", <<>>),
         El(NoNs, "faultstring", "Invalid Session ID found", <<>>)>>)

\* A fault with no faultcode of its own, one nested in its detail, and an
\* empty faultstring.
DetailFault ==
    El(SoapNs, "Fault", "",
       <<El(NoNs, "faultstring", "", <<>>),
         El(NoNs, "detail", "",
            <<El(NoNs, "faultcode", "NESTED", <<>>)>>)>>)

\* A Fault element of another namespace.
ForeignFault ==
    El(OtherNs, "Fault", "",
       <<El(NoNs, "faultcode", "FOREIGN", <<>>),
         El(NoNs, "faultstring", "other namespace", <<>>)>>)

BodySessionFault == XmlBody(Envelope(<<SessionFault>>))
BodyDetailFault == XmlBody(Envelope(<<DetailFault>>))
BodyForeignFault == XmlBody(Envelope(<<ForeignFault>>))
\* A document whose root is itself a Fault element: not a SOAP message, and
\* find('.//') does not look at the root.
BodyRootFault == XmlBody(SessionFault)
BodyNoFault == XmlBody(Envelope(<<El(NoNs, "deployResponse", "", <<>>)>>))
BodyNotXml == [wf |-> FALSE, root |-> El(NoNs, None, "", <<>>),
               raw |-> <<"o", "o", "p", "s">>]

Bodies == {BodySessionFault, BodyDetailFault, BodyForeignFault,
           BodyRootFault, BodyNoFault, BodyNotXml}

Statuses == {200, 399, 400, 500}

Responses == [status : Statuses, body : Bodies]

NoResponse == [status |-> 0, body |-> BodyNotXml]


(* --------------------------- the connection --------------------------- *)

NoConn == [ok |-> FALSE, session_id |-> "", sf_instance |-> ""]

\* What a login can leave in the Salesforce object.
Sessions == [ok : {TRUE}, session_id : {"", "00Dsid"},
             sf_instance : {"", "na1.salesforce.com"}]

(* ------------------------- the staging trees -------------------------- *)

\* A file of a staging tree: its path below the staging root (the sequence
\* of its components), and the request whose build wrote it.
Stamp(paths, id) == {[path |-> p, by |-> id] : p \in paths}

PlaceholderObject == <<"objects", "##api_name##.object">>
ObjectFile == <<"objects", "<api_name>.object">>
PackageXml == <<"package.xml">>
AdminProfile == <<"profiles", "Admin.profile">>

\* assets/create_object_tmpl, as far as the code names its files.
ObjectTemplate == {PlaceholderObject}

ContainerJson == <<"appTemplates", "<template_name>", "ml", "containers",
                   "ModelContainer.json">>
SetupJson == <<"appTemplates", "<template_name>", "ml", "setups",
               "ModelSetup.json">>
TemplateInfoJson == <<"appTemplates", "<template_name>", "template-info.json">>

\* assets/create_einstein_model_tmpl/appTemplates/##template_name##
EinsteinTemplate == {ContainerJson, SetupJson, TemplateInfoJson}

\* shutil.rmtree(path): the directory is gone, or the call raises and leaves
\* the directory with the files keep.
RmTree(dir, ok, keep) ==
    IF ~dir.exists THEN [dir |-> dir, raised |-> TRUE]
    ELSE IF ok THEN [dir |-> NoDir, raised |-> FALSE]
    ELSE [dir |-> Dir(keep), raised |-> TRUE]

\* What a failed rmtree is taken to leave in the directory: every file, or
\* none.
RmLeftovers(dir) == {dir.files, {}}

\* What a copytree that fails is taken to leave at a destination that did
\* not exist: nothing, the empty directory, or every file of the template.
PartialCopies(template, id) ==
    {NoDir, Dir({}), Dir(Stamp(template, id))}

NoBuildErr == None

ObjectBuildSteps == {"copytree", "rename", "field_tmpl", "encode_field",
                     "package_xml", "object_descriptor", "profile"}

\* The try block of create_metadata_package, lines 241-380, run on the
\* staging directory dir for request id.  env: the step that fails (or
\* None), whether rmtree succeeds and what it leaves, what a failed copy
\* leaves.  The staging directory afterwards, and the step that raised.
MetadataPackageTry(dir, id, env) ==
    LET d1 == RmTree(dir, env.rmOk, env.keep).dir
        d2 == Dir(Stamp(ObjectTemplate, id))
        d3 == Dir(Stamp({ObjectFile}, id))
        d4 == Dir(Stamp({ObjectFile, PackageXml}, id))
        d5 == Dir(Stamp({ObjectFile, PackageXml, AdminProfile}, id))
        out(d, e) == [dir |-> d, err |-> e]
    IN  IF d1.exists THEN out(d1, "copytree")
        ELSE IF env.failAt = "copytree" THEN out(env.part, "copytree")
        ELSE IF env.failAt = "rename" THEN out(d2, "rename")
        ELSE IF env.failAt = "field_tmpl" THEN out(d3, "field_tmpl")
        ELSE IF env.failAt = "encode_field" THEN out(d3, "encode_field")
        ELSE IF env.failAt = "package_xml" THEN out(d3, "package_xml")
        ELSE IF env.failAt = "object_descriptor" THEN out(d4, "object_descriptor")
        ELSE IF env.failAt = "profile" THEN out(d4, "profile")
        ELSE out(d5, NoBuildErr)

\* The handler re-raising what it logged.
MetadataPackageExceptReraise(err) ==
    [log |-> "An error occurred", raise |-> TRUE,
     exc |-> Exc("Exception", err)]

\* except Exception of create_metadata_package, lines 382-385.
MetadataPackageExcept(err) ==
    [log |-> "An error occurred", raise |-> FALSE,
     exc |-> Exc("Exception", err)]

EinsteinBuildSteps == {"clean_deploy_dir", "template_name", "copytree",
                       "container", "setup", "template_info", "package_xml"}

\* _clean_deploy_dir, lines 14-19: rmtree when the directory exists, then
\* makedirs; either may raise.
CleanDeployDir(dir, rmOk, keep, mkOk) ==
    LET rm == IF dir.exists THEN RmTree(dir, rmOk, keep)
              ELSE [dir |-> dir, raised |-> FALSE]
    IN  IF rm.raised THEN rm
        ELSE IF mkOk THEN [dir |-> Dir({}), raised |-> FALSE]
        ELSE [dir |-> NoDir, raised |-> TRUE]

\* The try block of create_einstein_model_package, lines 390-481.
EinsteinPackageTry(dir, id, env) ==
    LET clean == CleanDeployDir(dir, env.rmOk, env.keep,
                                env.failAt # "clean_deploy_dir")
        d1 == clean.dir
        d2 == Dir(Stamp(EinsteinTemplate, id))
        d3 == Dir(Stamp(EinsteinTemplate \cup {PackageXml}, id))
        out(d, e) == [dir |-> d, err |-> e]
    IN  IF clean.raised THEN out(d1, "clean_deploy_dir")
        ELSE IF env.failAt = "template_name" THEN out(d1, "template_name")
        ELSE IF env.failAt = "copytree"
            THEN out(IF env.part.exists THEN env.part ELSE d1, "copytree")
        ELSE IF env.failAt \in {"container", "setup", "template_info",
                                "package_xml"}
            THEN out(d2, env.failAt)
        ELSE out(d3, NoBuildErr)

\* The handler swallowing the error as the custom-object build does.
EinsteinPackageExceptSwallow(err) ==
    [log |-> "Error creating Einstein model package", raise |-> FALSE,
     exc |-> Exc("Exception", "Error creating Einstein model package")]

\* except Exception of create_einstein_model_package, lines 483-487.
EinsteinPackageExcept(err) ==
    [log |-> "Error creating Einstein model package", raise |-> TRUE,
     exc |-> Exc("Exception", "Error creating Einstein model package")]


(* ------------------------------ deploy -------------------------------- *)

\* The checks without the one of b64.
DeployPrecheckNoPackage(s, b) ==
    IF ~s.ok THEN Exc("ValueError", MsgInvalidConnection)
    ELSE IF s.sf_instance = "" THEN Exc("ValueError", MsgNoInstance)
    ELSE NoExc

\* The checks deploy makes before it builds the envelope, lines 144-159 and
\* 190-192: what it raises, or NoExc.  (A Salesforce object always has the
\* attributes session_id and sf_instance: the AttributeError handler of
\* lines 157-159 is not taken.)
DeployPrecheck(s, b) ==
    IF ~s.ok THEN Exc("ValueError", MsgInvalidConnection)
    ELSE IF s.sf_instance = "" THEN Exc("ValueError", MsgNoInstance)
    ELSE IF b.isNone THEN Exc("ValueError", MsgInvalidPackage)
    ELSE NoExc

\* The transport error handled by the generic handler: raised as it came.
PostExceptGeneric(e) == Exc(e, None)

\* except requests.exceptions.RequestException, lines 225-227.
PostExcept(e) == Exc("ValueError", MsgNetwork)

\* Lines 207-223: the fault a status of 400 or more is raised with, NoExc
\* for a request that was accepted.
Classify(response) ==
    IF response.status >= FaultStatus
    THEN [type |-> "ValueError", msg |-> MsgApiFailed,
          detail |-> FaultMessage(response)]
    ELSE NoExc

Returned == [kind |-> "returned", text |-> None, exc |-> NoExc]

NoB64 == [isNone |-> TRUE, entries |-> {}]
NotZipped == [done |-> FALSE, files |-> {}]

(* ------------------ the tool operations' own handlers ----------------- *)

\* The except clause returning the text of success.
ImplRaiseInitiated(tool, e) == Text(Initiated)

\* What the operation hands to the dispatch layer when a call it makes
\* raises e: create_einstein_model_impl catches it (lines 261-265),
\* create_object_with_fields_impl has no handler (lines 68-70).
ImplRaise(tool, e) ==
    IF tool = EinsteinTool
    THEN [kind |-> "text", text |-> EinsteinError, exc |-> e]
    ELSE Raised(e)

\* The success text, lines 72-77 and 255-260.
ImplDone(tool) == Text(Initiated)


(* ------------------------- the metadata cache ------------------------- *)

ObjectNames == {"Account", "Invoice__c"}

\* What sf_object.describe() answers is kept as a version of the object's
\* description: the org's schema may differ from one call to the next.
DescribeVersions == {"v1", "v2"}

\* What lines 67-68 come to: a description, AttributeError raised by the
\* attribute lookup of line 67, or an error raised by describe().
DescribeOutcomes ==
    [at : {"return"}, exc : {None}, version : DescribeVersions]
    \cup {[at |-> "getattr", exc |-> "AttributeError", version |-> None],
          [at |-> "describe", exc |-> "SalesforceResourceNotFound",
           version |-> None]}

NoEntry == [objectName |-> None, describe |-> None]

\* result of lines 97-108: the entry made of a description.
Entry(name, version) == [objectName |-> name, describe |-> version]

\* self.metadata_cache = {} of line 26.
EmptyCache == [n \in {} |-> NoEntry]

MsgNotEstablished == "Salesforce connection not established."
MsgObjectNotFound == "Object not found or not accessible."
MsgDescribeError == "Error retrieving fields for"

\* The error with its cause str(e) in the message.
Wrapping(type, msg, cause) ==
    [type |-> type, msg |-> msg,
     detail |-> Detail("cause", None, cause, 0, <<>>)]

\* The check of line 62 left out.
CacheHitNever(cache, name) == FALSE

\* object_name in self.metadata_cache, line 62.
CacheHit(cache, name) == name \in DOMAIN cache

\* The cache replaced by the one entry.
CacheStoreAlone(cache, name, entry) == [n \in {name} |-> entry]

\* self.metadata_cache[object_name] = result, line 110.
CacheStore(cache, name, entry) ==
    [n \in DOMAIN cache \cup {name} |-> IF n = name THEN entry ELSE cache[n]]

\* Every failure reported as a describe error.
DescribeExceptGeneric(name, e) == Wrapping("ValueError", MsgDescribeError, e)

\* The handlers of lines 113-116.
DescribeExcept(name, e) ==
    IF e = "AttributeError"
    THEN Exc("ValueError", MsgObjectNotFound)
    ELSE Wrapping("ValueError", MsgDescribeError, e)

\* OrgHandler.get_object_fields_cached(name), lines 46-116, on connection
\* conn and cache cache, with d what lines 67-68 would come to: the cache
\* afterwards, what the call returned or raised, whether it reached line 67
\* (attempted) and whether it invoked describe() (described).
GetObjectFieldsCached(conn, cache, name, d) ==
    LET out(c, o, v, e, a, dd) ==
            [cache |-> c, out |-> o, value |-> v, exc |-> e,
             attempted |-> a, described |-> dd]
    IN  IF ~conn.ok
        THEN out(cache, "raised", NoEntry,
                 Exc("ValueError", MsgNotEstablished), FALSE, FALSE)
        ELSE IF CacheHit(cache, name)
        THEN out(cache, "returned", cache[name], NoExc, FALSE, FALSE)
        ELSE IF d.at = "return"
        THEN out(CacheStore(cache, name, Entry(name, d.version)), "returned",
                 Entry(name, d.version), NoExc, TRUE, TRUE)
        ELSE out(cache, "raised", NoEntry, DescribeExcept(name, d.exc),
                 TRUE, d.at = "describe")

(* ----------------------- the read-path operations --------------------- *)

SoqlTool == "run_soql_query"
SoslTool == "run_sosl_search"
FieldsTool == "get_object_fields"
DescribeTool == "describe_object"

ReadTools == {SoqlTool, SoslTool, FieldsTool, DescribeTool}

\* The texts the read-path operations return, by operation.
MissingArgument(tool) ==
    CASE tool = SoqlTool -> "Missing 'query' argument"
      [] tool = SoslTool -> "Missing 'search' argument"
      [] OTHER -> "Missing 'object_name' argument"

ResultsText(tool) ==
    CASE tool = SoqlTool -> "SOQL Query Results (JSON)"
      [] tool = SoslTool -> "SOSL Search Results (JSON)"
      [] tool = FieldsTool -> "Fields Metadata (JSON)"
      [] OTHER -> "## label (name)"

SalesforceErrorText(tool) ==
    IF tool = SoqlTool THEN "SOQL Error" ELSE "SOSL Error"

ErrorText(tool) ==
    CASE tool = SoqlTool -> "Error executing SOQL"
      [] tool = SoslTool -> "Error executing SOSL"
      [] tool = FieldsTool -> "Error getting fields for"
      [] OTHER -> "Error describing object"

ReadTexts ==
    {MsgNotEstablished}
    \cup UNION {{MissingArgument(t), ResultsText(t), SalesforceErrorText(t),
                 ErrorText(t)} : t \in ReadTools}

\* A text result that renders the error e.
ErrorResult(t, e) == [kind |-> "text", text |-> t, exc |-> e]

\* The errors query_all, search and json.dumps are taken to raise.
QueryErrors == {"SalesforceMalformedRequest", "ConnectionError", "TypeError"}

\* isinstance(e, SalesforceError)
IsSalesforceError(e) ==
    e \in {"SalesforceMalformedRequest", "SalesforceResourceNotFound"}

\* Handlers that catch SalesforceError only, as create_object_impl's does.
ReadExceptSalesforceOnly(tool, e) ==
    IF IsSalesforceError(e.type)
    THEN ErrorResult(SalesforceErrorText(tool), e)
    ELSE Raised(e)

\* The handlers of the read-path operations, lines 97-100, 118-121, 137-138
\* and 205-206: what the operation returns when its call raised e.
ReadExcept(tool, e) ==
    IF tool \in {SoqlTool, SoslTool} /\ IsSalesforceError(e.type)
    THEN ErrorResult(SalesforceErrorText(tool), e)
    ELSE ErrorResult(ErrorText(tool), e)

(* -------------------------- the field encoder ------------------------- *)

\* A key the field's dict does not have.
Absent == "<absent>"

\* A field without the key picklist_values.
NoList == <<Absent>>

\* The sequences over S of length n at most.
Seqs(S, n) == UNION {[1..k -> S] : k \in 0..n}

FieldTypes == {"Text", "Number", "Lookup", "LongText", "Picklist",
               "Checkbox", "URL", "Date", None, Absent}

PicklistEntries == {"Open", "Closed"}

\* The fields the encoder is applied to: the members of json_obj["fields"].
FieldSpecs ==
    [label : {"Status", Absent},
     type : FieldTypes,
     api_name : {"Status__c", Absent},
     picklist_values : Seqs(PicklistEntries, MaxValues) \cup {NoList},
     defaultValue : {"True", "False", Absent},
     referenceTo : {"Account", "", Absent},
     relationshipLabel : {"Accounts", "", Absent},
     relationshipName : {"Accounts", "", Absent}]

NoField ==
    [label |-> Absent, type |-> Absent, api_name |-> Absent,
     picklist_values |-> NoList, defaultValue |-> Absent,
     referenceTo |-> Absent, relationshipLabel |-> Absent,
     relationshipName |-> Absent]

\* field.get(key, default)
Get(value, default) == IF value = Absent THEN default ELSE value

\* str(default_val).lower()
Lower(b) == IF b = "True" THEN "true" ELSE "false"

\* An element without children: <tag>text</tag>.
Tag(tag, text) == El(NoNs, tag, text, <<>>)

\* val of lines 297-302.
ValueBlock(v) ==
    El(NoNs, "value", "",
       <<Tag("fullName", v), Tag("default", "false"), Tag("label", v)>>)

\* Each block put in front of the ones before it.
RECURSIVE PicklistValuesStrPrepend(_)
PicklistValuesStrPrepend(vs) ==
    IF vs = <<>> THEN <<>>
    ELSE <<ValueBlock(vs[Len(vs)])>>
         \o PicklistValuesStrPrepend(SubSeq(vs, 1, Len(vs) - 1))

\* picklist_values_str after the loop of lines 295-303.
RECURSIVE PicklistValuesStr(_)
PicklistValuesStr(vs) ==
    IF vs = <<>> THEN <<>>
    ELSE PicklistValuesStr(SubSeq(vs, 1, Len(vs) - 1))
         \o <<ValueBlock(vs[Len(vs)])>>

\* type_def of lines 305-314.
PicklistTypeDef(vs) ==
    <<Tag("type", "Picklist"),
      El(NoNs, "valueSet", "",
         <<Tag("restricted", "true"),
           El(NoNs, "valueSetDefinition", "",
              <<Tag("sorted", "false")>> \o PicklistValuesStr(vs))>>)>>

\* type_def of lines 316-318.
NumberTypeDef ==
    <<Tag("precision", "18"), Tag("scale", "0"), Tag("type", "Number")>>

\* Both relationship tags emitted whatever the field supplies.
LookupTypeDefAlways(f) ==
    <<Tag("type", "Lookup"), Tag("referenceTo", Get(f.referenceTo, "")),
      Tag("relationshipLabel", Get(f.relationshipLabel, "")),
      Tag("relationshipName", Get(f.relationshipName, ""))>>

\* type_def of lines 284-291.
LookupTypeDef(f) ==
    <<Tag("type", "Lookup"), Tag("referenceTo", Get(f.referenceTo, ""))>>
    \o (IF Get(f.relationshipLabel, "") # ""
        THEN <<Tag("relationshipLabel", f.relationshipLabel)>> ELSE <<>>)
    \o (IF Get(f.relationshipName, "") # ""
        THEN <<Tag("relationshipName", f.relationshipName)>> ELSE <<>>)

NotEncoded == [done |-> FALSE, raised |-> FALSE, exc |-> None, type_def |-> <<>>]

\* Lines 271-318 of the loop of create_metadata_package on the field f:
\* the fragment type_def, or the KeyError of a key the field lacks.
EncodeMetadataField(f) ==
    LET ok(td) == [done |-> TRUE, raised |-> FALSE, exc |-> None,
                   type_def |-> td]
        ko(e) == [done |-> TRUE, raised |-> TRUE, exc |-> e,
                  type_def |-> <<>>]
    IN  IF Absent \in {f.label, f.type, f.api_name} THEN ko("KeyError")
        ELSE CASE f.type = "Text" ->
                    ok(<<Tag("type", "Text"), Tag("length", "100")>>)
               [] f.type = "URL" -> ok(<<Tag("type", "Url")>>)
               [] f.type = "Checkbox" ->
                    ok(<<Tag("type", "Checkbox"),
                         Tag("defaultValue",
                             Lower(Get(f.defaultValue, "False")))>>)
               [] f.type = "Lookup" -> ok(LookupTypeDef(f))
               [] f.type = "Picklist" ->
                    IF f.picklist_values = NoList THEN ko("KeyError")
                    ELSE ok(PicklistTypeDef(f.picklist_values))
               [] OTHER -> ok(NumberTypeDef)

(* ------------------- the Einstein fields builder ---------------------- *)

\* The longest list of model fields.
MaxFields == 2

\* Python strings of this part are sequences of characters, so that
\* str.replace can be computed on them; None and a missing key are
\* one-element sequences no string equals.
PyNone == <<None>>

\* The Python string s, character by character.
Py(s) ==
    CASE s = "Won__c" ->
            <<"W", "o", "n", "_", "_", "c">>
      [] s = "Is_Won__c" ->
            <<"I", "s", "_", "W", "o", "n", "_", "_", "c">>
      [] s = "Churn" ->
            <<"C", "h", "u", "r", "n">>
      [] s = "Age__c" ->
            <<"A", "g", "e", "_", "_", "c">>
      [] s = "Age" ->
            <<"A", "g", "e">>
      [] s = "Text" ->
            <<"T", "e", "x", "t">>
      [] s = "Number" ->
            <<"N", "u", "m", "b", "e", "r">>
      [] s = "Date" ->
            <<"D", "a", "t", "e">>
      [] s = "Categorical" ->
            <<"C", "a", "t", "e", "g", "o", "r", "i", "c", "a", "l">>
      [] s = "Numerical" ->
            <<"N", "u", "m", "e", "r", "i", "c", "a", "l">>
      [] s = "Occurrence" ->
            <<"O", "c", "c", "u", "r", "r", "e", "n", "c", "e">>
      [] s = "Percentile" ->
            <<"P", "e", "r", "c", "e", "n", "t", "i", "l", "e">>

OutcomeFields == {Py("Won__c"), Py("Is_Won__c"), Py("Churn")}

\* The members of json_obj["fields"]; field_type may be outside the enum of
\* the tool's schema, None, or missing.
ModelFields ==
    [field_name : {Py("Age__c")},
     field_label : {Py("Age")},
     field_type : {Py("Text"), Py("Number"), Py("Date"), PyNone, NoList},
     data_type : {Py("Categorical"), Py("Numerical")},
     ignored : {"True", "False", Absent}]

JsonObjs ==
    [outcome_field : OutcomeFields, fields : Seqs(ModelFields, MaxFields)]

NoJsonObj == [outcome_field |-> <<>>, fields |-> <<>>]

\* str.replace(old, new) for a non-empty old: the leftmost occurrences, not
\* overlapping, replaced in one pass.
RECURSIVE Replace(_, _, _)
Replace(s, old, new) ==
    IF Len(s) < Len(old) THEN s
    ELSE IF SubSeq(s, 1, Len(old)) = old
         THEN new \o Replace(SubSeq(s, Len(old) + 1, Len(s)), old, new)
         ELSE <<Head(s)>> \o Replace(Tail(s), old, new)

\* outcome_field.replace("_", " ").replace("__c", ""), line 502.
OutcomeLabel(outcome_field) ==
    Replace(Replace(outcome_field, <<"_">>, <<" ">>), <<"_", "_", "c">>, <<>>)

\* The second argument of line 448.
SetupOutcomeLabel(outcome_field) ==
    Replace(Replace(outcome_field, <<"_">>, <<" ">>), <<"_", "_", "c">>, <<>>)

\* What json.dumps writes: a string in quotes, a literal (False as false,
\* None as null, an int in digits), an object as its members in the order
\* of the dict's keys, a list.
JStr(chars) == [kind |-> "string", text |-> chars, members |-> <<>>]
JLit(token) == [kind |-> token, text |-> <<>>, members |-> <<>>]
JObj(members) == [kind |-> "object", text |-> <<>>, members |-> members]
JEmptyList == [kind |-> "array", text |-> <<>>, members |-> <<>>]

\* The dict of lines 495-508, 521-534 and 554-567.
TextFieldObj(data_type, ignored, label, name) ==
    JObj(<< <<"type", JStr(Py("Text"))>>,
            <<"balanced", JLit("false")>>,
            <<"dataType", JStr(data_type)>>,
            <<"highCardinality", JLit("false")>>,
            <<"ignored", JLit(Lower(ignored))>>,
            <<"includeOther", JLit("true")>>,
            <<"label", JStr(label)>>,
            <<"name", JStr(name)>>,
            <<"ordering", JStr(Py("Occurrence"))>>,
            <<"sensitive", JLit("false")>>,
            <<"source", JLit("null")>>,
            <<"values", JEmptyList>> >>)

\* The dict of lines 537-551.
NumberFieldObj(ignored, label, name) ==
    JObj(<< <<"type", JStr(Py("Number"))>>,
            <<"bucketingStrategy",
              JObj(<< <<"type", JStr(Py("Percentile"))>>,
                      <<"numberOfBuckets", JLit("10")>> >>)>>,
            <<"highCardinality", JLit("null")>>,
            <<"ignored", JLit(Lower(ignored))>>,
            <<"label", JStr(label)>>,
            <<"name", JStr(name)>>,
            <<"sensitive", JLit("false")>>,
            <<"source", JLit("null")>>,
            <<"max", JLit("10000000000")>>,
            <<"min", JLit("0")>> >>)

\* field_obj of one pass of the loop, lines 513-567.
EinsteinFieldObj(f) ==
    LET ignored == Get(f.ignored, "False")
    IN  IF f.field_type = Py("Text")
        THEN TextFieldObj(f.data_type, ignored, f.field_label, f.field_name)
        ELSE IF f.field_type = Py("Number")
        THEN NumberFieldObj(ignored, f.field_label, f.field_name)
        ELSE TextFieldObj(Py("Categorical"), ignored, f.field_label,
                          f.field_name)

\* The outcome field appended after the model fields.
EinsteinFieldsArrayOutcomeLast(fields, outcome_field) ==
    [i \in 1..Len(fields) |-> EinsteinFieldObj(fields[i])]
    \o <<TextFieldObj(Py("Categorical"), "False", OutcomeLabel(outcome_field),
                      outcome_field)>>

\* fields_array at line 571: the outcome field, then one dict per field.
EinsteinFieldsArray(fields, outcome_field) ==
    <<TextFieldObj(Py("Categorical"), "False", OutcomeLabel(outcome_field),
                   outcome_field)>>
    \o [i \in 1..Len(fields) |-> EinsteinFieldObj(fields[i])]

MsgFieldsJson == "Error building fields JSON: 'field_type'"

NotBuilt == [done |-> FALSE, raised |-> FALSE, exc |-> NoExc, array |-> <<>>]

\* build_einstein_fields_json, lines 489-574: the array that is dumped, or
\* the Exception that wraps the KeyError of a field without field_type.
BuildEinsteinFieldsJson(fields, outcome_field) ==
    IF \E i \in 1..Len(fields) : fields[i].field_type = NoList
    THEN [done |-> TRUE, raised |-> TRUE,
          exc |-> Exc("Exception", MsgFieldsJson), array |-> <<>>]
    ELSE [done |-> TRUE, raised |-> FALSE, exc |-> NoExc,
          array |-> EinsteinFieldsArray(fields, outcome_field)]

(* --------------------- processes on one BASE_PATH --------------------- *)

\* BASE_PATH is the directory of the installed package (line 11), so every
\* server process started from it (the stdio server, the bridge, the web
\* server, or two of one kind) stages in the same directories.  Within one
\* process a tool call runs to its end before the next one starts.
Procs == {1, 2}

\* A process that has made no deployment: no b64, nothing sent.  alone: no
\* other deployment on the same staging path was in flight with this one;
\* rmFailed: the rmtree of this deployment raised.
IdleProc ==
    [pc |-> "idle", tool |-> None, b64 |-> NoB64,
     sent |-> [done |-> FALSE, entries |-> {}],
     alone |-> TRUE, rmFailed |-> FALSE]

\* open(path, "w") and write, by process p: the file is created or
\* replaced.
WriteFile(dir, path, p) ==
    Dir({f \in dir.files : f.path # path} \cup {[path |-> path, by |-> p]})

HasFile(dir, path) == \E f \in dir.files : f.path = path

\* os.rename(old, new): the file keeps its content.
RenameFile(dir, old, new) ==
    LET f == CHOOSE f \in dir.files : f.path = old
    IN  Dir({g \in dir.files : g.path \notin {old, new}}
            \cup {[path |-> new, by |-> f.by]})

(* ---------------------- placeholder substitution ---------------------- *)

\* Texts are sequences of symbols; the marker ##key## is three of them.
Token(key) == <<"##", key, "##">>

\* The templates whose placeholders the code replaces, and for each the
\* keys in the order of its replace calls: lines 320-322, 350-353, 423-427,
\* 443-452 and 462-464.
Templates == {"field.tmpl", "object", "ModelContainer.json",
              "ModelSetup.json", "template-info.json"}

ReplaceOrder(template) ==
    CASE template = "field.tmpl" -> <<"api_name", "name", "type">>
      [] template = "object" ->
            <<"description", "name", "plural_name", "fields">>
      [] template = "ModelContainer.json" ->
            <<"model_label", "model_description", "model_capability",
              "outcome_field", "goal">>
      [] template = "ModelSetup.json" ->
            <<"setup_description", "data_source", "outcome_type",
              "failure_value", "goal", "outcome_label", "outcome_field",
              "success_value", "algorithm_type", "fields_json">>
      [] template = "template-info.json" ->
            <<"model_label", "template_description", "template_name">>

KeysOf(template) ==
    {ReplaceOrder(template)[i] : i \in 1..Len(ReplaceOrder(template))}

\* The text of a template file: every placeholder the code replaces in it,
\* once, each after a piece of the template's own text.
RECURSIVE TemplateOf(_)
TemplateOf(keys) ==
    IF keys = <<>> THEN <<"end">>
    ELSE <<"text">> \o Token(Head(keys)) \o TemplateOf(Tail(keys))

TemplateText(template) == TemplateOf(ReplaceOrder(template))

\* A value without a marker, and the values a key may be given: that text,
\* or a text that holds the marker of a key of the same template.
PlainValue(key) == <<"value of " \o key>>

\* The substitutions of a template: one value per key, at most one of them
\* holding a marker.
Substitutions(template) ==
    LET keys == KeysOf(template)
        plain == [k \in keys |-> PlainValue(k)]
    IN  {plain} \cup
        {[plain EXCEPT ![k] = <<"see">> \o Token(m)] : k \in keys, m \in keys}

NoSubstitution == [template |-> None, values |-> <<>>]

NotRendered == [done |-> FALSE, text |-> <<>>]

\* text.replace("##k1##", values[k1]).replace("##k2##", values[k2])... for
\* the keys in the given order.
RECURSIVE ReplaceAll(_, _, _)
ReplaceAll(text, order, values) ==
    IF order = <<>> THEN text
    ELSE ReplaceAll(Replace(text, Token(Head(order)), values[Head(order)]),
                    Tail(order), values)

\* The replace calls of the template, in the order of the code.
Render(template, values) ==
    ReplaceAll(TemplateText(template), ReplaceOrder(template), values)

(* ------------------------ the HTTP bridge ----------------------------- *)

\* The code of every error object, mcp_bridge.py line 135.
ServerError == -32000

\* The names the dispatch of lines 103-116 knows.
BridgeTools == {"create_object", ObjectTool, EinsteinTool} \cup ReadTools

\* The request objects: the keys jsonrpc, method and id present or not;
\* params absent, a dict (with or without the key name) or a list.
Requests ==
    [jsonrpc : {"2.0", "1.0", Absent},
     method : {"initialize", "tools/list", "tools/call", "resources/list",
               Absent},
     id : {"7", Absent},
     params : {"dict", "list", Absent},
     name : BridgeTools \cup {"drop_table", Absent}]

NoRequest ==
    [jsonrpc |-> Absent, method |-> Absent, id |-> Absent, params |-> Absent,
     name |-> Absent]

\* What a tool implementation called by the bridge comes to: a list of
\* texts, or an exception.
ToolOutcomes ==
    {Text(Initiated), Text(NotActive), Raised(Exc("ValueError", MsgApiFailed))}

HTTPException(status, detail) ==
    [type |-> "HTTPException", msg |-> detail, detail |-> NoDetail,
     status |-> status]

\* The body of a response, and what the handler comes to when an exception
\* leaves it: the HTTP status of an HTTPException, an internal server error
\* otherwise.
Body(id, key, code, payload) ==
    [answered |-> TRUE, status |-> 200, jsonrpc |-> "2.0", id |-> id,
     keys |-> {key}, code |-> code, payload |-> payload]

Escaped(e) ==
    [answered |-> TRUE,
     status |-> IF e.type = "HTTPException" THEN e.status ELSE 500,
     jsonrpc |-> None, id |-> None, keys |-> {}, code |-> 0,
     payload |-> e.msg]

NoAnswer ==
    [answered |-> FALSE, status |-> 0, jsonrpc |-> None, id |-> None,
     keys |-> {}, code |-> 0, payload |-> None]

\* The try block of mcp_http, lines 57-128: the body it returns, or the
\* exception it raises.
McpHttpTry(r, outcome) ==
    LET id == Get(r.id, None)
        raise(e) == [raised |-> TRUE, exc |-> e, body |-> NoAnswer]
        return(payload) ==
            [raised |-> FALSE, exc |-> NoExc,
             body |-> Body(id, "result", 0, payload)]
        name == IF r.params = Absent THEN None ELSE Get(r.name, None)
    IN  IF Get(r.jsonrpc, None) # "2.0"
        THEN raise(HTTPException(400, "Invalid JSON-RPC version"))
        ELSE IF r.method = "initialize" THEN return("protocolVersion")
        ELSE IF r.method = "tools/list" THEN return("tools")
        ELSE IF r.method = "tools/call"
        THEN IF r.params = "list"
             THEN raise(Exc("AttributeError", "get"))
             ELSE IF name \in BridgeTools
             THEN IF outcome.kind = "raised" THEN raise(outcome.exc)
                  ELSE return(outcome.text)
             ELSE raise(HTTPException(400, "Unknown tool"))
        ELSE raise(HTTPException(400, "Unknown method"))

\* A handler that lets an HTTPException pass.
McpHttpCatchesOthers(e) == e.type # "HTTPException"

\* except Exception, line 130: HTTPException is an Exception too.
McpHttpCatches(e) == TRUE

\* mcp_http, lines 53-138.
McpHttp(r, outcome) ==
    LET try == McpHttpTry(r, outcome)
    IN  IF ~try.raised THEN try.body
        ELSE IF McpHttpCatches(try.exc)
        THEN Body(Get(r.id, None), "error", ServerError, try.exc.msg)
        ELSE Escaped(try.exc)

(* ------------------------------- Init --------------------------------- *)

NoEnvelope == [by |-> 0]
NoHttpLog == [by |-> 0]

\* A fresh process on a fresh checkout: OrgHandler.__init__ (lines 24-26),
\* no staging directory, no archive, no log.
Fresh ==
    /\ connection = NoConn
    /\ current = NoDir
    /\ deployDir = NoDir
    /\ packZip = NoFile
    /\ deployZip = NoFile
    /\ mylog = <<>>
    /\ checkTxt = <<>>
    /\ deployLog = NoEnvelope
    /\ httpLog = NoHttpLog
    /\ req = [id |-> 0, tool |-> None]
    /\ pc = "idle"
    /\ sf = NoConn
    /\ b64 = NoB64
    /\ resp = NoResponse
    /\ posts = <<>>
    /\ buildErr = NoBuildErr
    /\ zipped = NotZipped
    /\ logFail = {}
    /\ deployOut = NoResult
    /\ result = NoResult
    /\ metadata_cache = EmptyCache
    /\ calls = <<>>
    /\ encoded = NotEncoded
    /\ fields_json = NotBuilt
    /\ outcome_label = <<>>
    /\ proc = [p \in Procs |-> IdleProc]
    /\ rendered = NotRendered
    /\ reply = NoAnswer

\* No input has reached the encoder, the fields builder or the templates.
NoInput(inputs) ==
    /\ "field" \in inputs => field = NoField
    /\ "json_obj" \in inputs => json_obj = NoJsonObj
    /\ "substitution" \in inputs => substitution = NoSubstitution
    /\ "request" \in inputs => request = NoRequest

Init ==
    /\ Fresh
    /\ NoInput({"field", "json_obj", "substitution", "request"})

(* ------------------------------ actions ------------------------------- *)

\* The request ends: the operation returns or raises res.
Finish(res) ==
    /\ pc' = "idle"
    /\ result' = res

\* A call made by the operation raised e.
Raise(e) == Finish(ImplRaise(req.tool, e))

\* A new request starts: the locals of the last one are gone.
NewCall(tool) ==
    /\ pc = "idle"
    /\ req.id < MaxRequests
    /\ req' = [id |-> req.id + 1, tool |-> tool]
    /\ sf' = NoConn
    /\ b64' = NoB64
    /\ resp' = NoResponse
    /\ posts' = <<>>
    /\ buildErr' = NoBuildErr
    /\ zipped' = NotZipped
    /\ logFail' = {}
    /\ deployOut' = NoResult

\* OrgHandler.establish_connection, lines 28-44, called once when the server
\* module is loaded (server.py, lines 15-16), before any tool call.
EstablishConnection ==
    /\ pc = "idle"
    /\ req.id = 0
    /\ \E c \in Sessions \cup {NoConn} : connection' = c
    /\ UNCHANGED <<fsVars, logVars, req, pc, callVars, result>>
    /\ UNCHANGED <<orgVars, encVars, partVars>>

\* The checks without the one of the connection.
RefusalUnconnected(tool, conn, required) ==
    IF tool = EinsteinTool /\ ~required THEN MissingRequired
    ELSE None

\* The text a deployment tool refuses with, or None: lines 62-66 of
\* create_object_with_fields_impl, lines 224-234 of
\* create_einstein_model_impl (the required arguments first).
Refusal(tool, conn, required) ==
    IF tool = EinsteinTool /\ ~required THEN MissingRequired
    ELSE IF ~conn.ok THEN NotActive
    ELSE None

\* create_object_with_fields_impl, lines 47-69, up to the call of
\* create_metadata_package.
CreateObjectWithFields ==
    /\ NewCall(ObjectTool)
    /\ LET refusal == Refusal(ObjectTool, connection, TRUE)
       IN  IF refusal # None
           THEN /\ Finish(Text(refusal))
                /\ UNCHANGED mylog
           ELSE /\ mylog' = Append(mylog, req.id + 1)
                /\ pc' = "create_metadata_package"
                /\ result' = NoResult
    /\ UNCHANGED <<connection, fsVars, checkTxt, deployLog, httpLog>>
    /\ UNCHANGED <<orgVars, encVars, partVars>>

\* create_einstein_model_impl, lines 210-252, up to the call of
\* create_einstein_model_package.  required: whether all of model_name,
\* description, outcome_field, data_source and fields are given.
CreateEinsteinModel ==
    /\ NewCall(EinsteinTool)
    /\ \E required \in BOOLEAN :
         LET refusal == Refusal(EinsteinTool, connection, required)
         IN  IF refusal # None
             THEN /\ Finish(Text(refusal))
                  /\ UNCHANGED mylog
             ELSE /\ mylog' = Append(mylog, req.id + 1)
                  /\ pc' = "create_einstein_model_package"
                  /\ result' = NoResult
    /\ UNCHANGED <<connection, fsVars, checkTxt, deployLog, httpLog>>
    /\ UNCHANGED <<orgVars, encVars, partVars>>

\* What the environment decides in a build on the staging directory dir.
BuildEnvs(dir, steps, template, id) ==
    [failAt : steps \cup {None}, rmOk : BOOLEAN, keep : RmLeftovers(dir),
     part : PartialCopies(template, id)]

\* create_metadata_package, lines 238-385, and the return to line 70.
CreateMetadataPackage ==
    /\ pc = "create_metadata_package"
    /\ \E env \in BuildEnvs(current, ObjectBuildSteps, ObjectTemplate, req.id) :
         LET built == MetadataPackageTry(current, req.id, env)
             h == MetadataPackageExcept(built.err)
         IN  /\ current' = built.dir
             /\ buildErr' = built.err
             /\ IF built.err = NoBuildErr
                THEN /\ UNCHANGED checkTxt
                     /\ pc' = "zip_directory"
                     /\ UNCHANGED result
                ELSE /\ checkTxt' = Append(checkTxt, [by |-> req.id, msg |-> h.log])
                     /\ IF h.raise
                        THEN Raise(h.exc)
                        ELSE /\ pc' = "zip_directory"
                             /\ UNCHANGED result
    /\ UNCHANGED <<connection, deployDir, packZip, deployZip, mylog, deployLog,
                   httpLog, req, sf, b64, resp, posts, zipped, logFail,
                   deployOut>>
    /\ UNCHANGED <<orgVars, encVars, partVars>>

\* create_einstein_model_package, lines 387-487, and the return to line 253.
CreateEinsteinModelPackage ==
    /\ pc = "create_einstein_model_package"
    /\ \E env \in BuildEnvs(deployDir, EinsteinBuildSteps, EinsteinTemplate, req.id) :
         LET built == EinsteinPackageTry(deployDir, req.id, env)
             h == EinsteinPackageExcept(built.err)
         IN  /\ deployDir' = built.dir
             /\ buildErr' = built.err
             /\ IF built.err = NoBuildErr
                THEN /\ mylog' = Append(mylog, req.id)
                     /\ UNCHANGED checkTxt
                     /\ pc' = "deploy_package_from_deploy_dir"
                     /\ UNCHANGED result
                ELSE /\ checkTxt' = Append(checkTxt, [by |-> req.id, msg |-> h.log])
                     /\ UNCHANGED mylog
                     /\ IF h.raise
                        THEN Raise(h.exc)
                        ELSE /\ pc' = "deploy_package_from_deploy_dir"
                             /\ UNCHANGED result
    /\ UNCHANGED <<connection, current, packZip, deployZip, deployLog,
                   httpLog, req, sf, b64, resp, posts, zipped, logFail,
                   deployOut>>
    /\ UNCHANGED <<orgVars, encVars, partVars>>


\* Both paths writing BASE_PATH/pack.zip.
ArchiveOfShared(tool) == "pack.zip"

\* The archive a path writes and reads: BASE_PATH/pack.zip (lines 126 and
\* 235), BASE_PATH/deploy_package.zip (line 583).
ArchiveOf(tool) ==
    IF tool = ObjectTool THEN "pack.zip" ELSE "deploy_package.zip"

\* The file of that name, and the file written (or gone).
ArchiveFile(name) == IF name = "pack.zip" THEN packZip ELSE deployZip

WriteArchive(name, file) ==
    IF name = "pack.zip"
    THEN packZip' = file /\ UNCHANGED deployZip
    ELSE deployZip' = file /\ UNCHANGED packZip

\* The archive deploy_package_from_deploy_dir writes, lines 588-594: one
\* entry per file os.walk finds, named by the file's path relative to the
\* staging root.
Archive(dir, id) == [exists |-> TRUE, entries |-> dir.files, by |-> id]

\* The directories a file of the given path lies in, below the staging
\* root.
Parents(path) == {SubSeq(path, 1, k) : k \in 1..(Len(path) - 1)}

\* shutil.make_archive(BASE_PATH/pack, 'zip', dir), line 127: the archive
\* is written anew, with one entry per directory below the root ('objects/',
\* a name that ends in the separator: a last component that is empty) and
\* one per file.  (The staging trees here hold no empty directory.)
MakeArchive(dir, id) ==
    [exists |-> TRUE,
     entries |-> dir.files
                 \cup {[path |-> d \o <<"">>, by |-> id] :
                          d \in UNION {Parents(f.path) : f \in dir.files}},
     by |-> id]

\* zip_directory, lines 123-127, called from create_send_to_server, line
\* 234: make_archive raises when the directory is missing or the archive
\* cannot be written.
ZipDirectory ==
    /\ pc = "zip_directory"
    /\ \E ok \in BOOLEAN :
         IF ~current.exists
         THEN /\ Raise(Exc("FileNotFoundError", "current"))
              /\ UNCHANGED <<packZip, deployZip, zipped>>
         ELSE IF ~ok
         THEN /\ Raise(Exc("OSError", "pack.zip"))
              /\ UNCHANGED <<packZip, deployZip, zipped>>
         ELSE /\ WriteArchive(ArchiveOf(ObjectTool),
                               MakeArchive(current, req.id))
              /\ zipped' = [done |-> TRUE, files |-> current.files]
              /\ pc' = "binary_to_base64"
              /\ UNCHANGED result
    /\ UNCHANGED <<connection, current, deployDir, logVars, req,
                   sf, b64, resp, posts, buildErr, logFail, deployOut>>
    /\ UNCHANGED <<orgVars, encVars, partVars>>

\* deploy_package_from_deploy_dir, lines 576-594: the check of the staging
\* directory, the removal of the old archive, the new archive.
DeployPackageFromDeployDir ==
    /\ pc = "deploy_package_from_deploy_dir"
    /\ \E removeOk \in BOOLEAN, writeOk \in BOOLEAN :
         IF ~deployDir.exists
         THEN /\ Raise(Exc("FileNotFoundError", "Deployment directory not found"))
              /\ UNCHANGED <<packZip, deployZip, zipped>>
         ELSE IF ArchiveFile(ArchiveOf(EinsteinTool)).exists /\ ~removeOk
         THEN /\ Raise(Exc("OSError", "deploy_package.zip"))
              /\ UNCHANGED <<packZip, deployZip, zipped>>
         ELSE IF ~writeOk
         THEN /\ Raise(Exc("OSError", "deploy_package.zip"))
              /\ WriteArchive(ArchiveOf(EinsteinTool), NoFile)
              /\ UNCHANGED zipped
         ELSE /\ WriteArchive(ArchiveOf(EinsteinTool),
                               Archive(deployDir, req.id))
              /\ zipped' = [done |-> TRUE, files |-> deployDir.files]
              /\ pc' = "binary_to_base64"
              /\ UNCHANGED result
    /\ UNCHANGED <<connection, current, deployDir, logVars, req,
                   sf, b64, resp, posts, buildErr, logFail, deployOut>>
    /\ UNCHANGED <<orgVars, encVars, partVars>>

\* What open(file_path, "rb") and the read can come to, line 132-133: the
\* bytes, FileNotFoundError (the archive is no longer there), or another
\* error.
ReadOutcomes == {"ok", "FileNotFoundError", "OSError"}

\* binary_to_base64, lines 129-138, on pack.zip (line 235) or on
\* deploy_package.zip (line 597): None for a missing file; another error of
\* the read is raised.
BinaryToBase64 ==
    /\ pc = "binary_to_base64"
    /\ LET file == ArchiveFile(ArchiveOf(req.tool))
       IN  \E rd \in ReadOutcomes :
             IF ~file.exists \/ rd = "FileNotFoundError"
             THEN /\ b64' = NoB64
                  /\ WriteArchive(ArchiveOf(req.tool), NoFile)
                  /\ pc' = "deploy"
                  /\ UNCHANGED result
             ELSE IF rd = "OSError"
             THEN /\ Raise(Exc("OSError", "read"))
                  /\ UNCHANGED <<b64, packZip, deployZip>>
             ELSE /\ b64' = [isNone |-> FALSE, entries |-> file.entries]
                  /\ pc' = "deploy"
                  /\ UNCHANGED <<result, packZip, deployZip>>
    /\ UNCHANGED <<connection, current, deployDir, logVars, req, sf, resp,
                   posts, buildErr, zipped, logFail, deployOut>>
    /\ UNCHANGED <<orgVars, encVars, partVars>>

\* deploy raises e.
DeployRaise(e) ==
    /\ deployOut' = Raised(e)
    /\ Raise(e)

\* deploy, lines 142-192: the call with the operation's connection, and the
\* checks of sf and b64.
Deploy ==
    /\ pc = "deploy"
    /\ sf' = connection
    /\ LET e == DeployPrecheck(connection, b64)
       IN  IF e # NoExc
           THEN DeployRaise(e)
           ELSE /\ pc' = "deploy_log"
                /\ UNCHANGED <<result, deployOut>>
    /\ UNCHANGED <<connection, fsVars, logVars, req, b64, resp, posts,
                   buildErr, zipped, logFail>>
    /\ UNCHANGED <<orgVars, encVars, partVars>>

\* deploy, lines 194-197: the envelope is written to deploy.log.
DeployLogEnvelope ==
    /\ pc = "deploy_log"
    /\ \E ok \in BOOLEAN :
         IF ok
         THEN /\ deployLog' = [by |-> req.id]
              /\ pc' = "post"
              /\ UNCHANGED <<result, deployOut, logFail>>
         ELSE /\ logFail' = logFail \cup {"deploy.log"}
              /\ DeployRaise(Exc("OSError", "deploy.log"))
              /\ UNCHANGED deployLog
    /\ UNCHANGED <<connection, fsVars, mylog, checkTxt, httpLog, req, sf, b64,
                   resp, posts, buildErr, zipped>>
    /\ UNCHANGED <<orgVars, encVars, partVars>>

TransportErrors == {"ConnectionError", "Timeout"}

\* The POST made again after a transport error.
AfterPostRetry(answered) == IF answered THEN "http_log" ELSE "post"

\* Where deploy goes after requests.post, lines 199-227: on to line 203 when
\* the POST was answered, into the handler that raises when it was not.
AfterPost(answered) == IF answered THEN "http_log" ELSE "raise"

\* deploy, line 200 and lines 225-227: the POST, and the handler of a
\* transport error.
DeployPost ==
    /\ pc = "post"
    /\ \/ \E e \in TransportErrors :
            /\ posts' = Append(posts, e)
            /\ IF AfterPost(FALSE) = "raise"
               THEN DeployRaise(PostExcept(e))
               ELSE /\ pc' = AfterPost(FALSE)
                    /\ UNCHANGED <<result, deployOut>>
            /\ UNCHANGED resp
       \/ \E r \in Responses :
            /\ posts' = Append(posts, "response")
            /\ resp' = r
            /\ pc' = AfterPost(TRUE)
            /\ UNCHANGED <<result, deployOut>>
    /\ UNCHANGED <<connection, fsVars, logVars, req, sf, b64, buildErr,
                   zipped, logFail>>
    /\ UNCHANGED <<orgVars, encVars, partVars>>

\* deploy, lines 204-205 and 228-230: the response is written to
\* deploy_http.log; an error of the write is raised again by the generic
\* handler.
DeployLogResponse ==
    /\ pc = "http_log"
    /\ \E ok \in BOOLEAN :
         IF ok
         THEN /\ httpLog' = [by |-> req.id]
              /\ pc' = "classify"
              /\ UNCHANGED <<result, deployOut, logFail>>
         ELSE /\ logFail' = logFail \cup {"deploy_http.log"}
              /\ DeployRaise(Exc("OSError", "deploy_http.log"))
              /\ UNCHANGED httpLog
    /\ UNCHANGED <<connection, fsVars, mylog, checkTxt, deployLog, req, sf,
                   b64, resp, posts, buildErr, zipped>>
    /\ UNCHANGED <<orgVars, encVars, partVars>>

\* deploy, lines 207-223, and the operation's return, lines 72-77 and
\* 255-260.
DeployClassify ==
    /\ pc = "classify"
    /\ LET e == Classify(resp)
       IN  IF e # NoExc
           THEN DeployRaise(e)
           ELSE /\ deployOut' = Returned
                /\ Finish(ImplDone(req.tool))
    /\ UNCHANGED <<connection, fsVars, logVars, req, sf, b64, resp, posts,
                   buildErr, zipped, logFail>>
    /\ UNCHANGED <<orgVars, encVars, partVars>>

Next ==
    \/ EstablishConnection
    \/ CreateObjectWithFields
    \/ CreateEinsteinModel
    \/ CreateMetadataPackage
    \/ CreateEinsteinModelPackage
    \/ ZipDirectory
    \/ DeployPackageFromDeployDir
    \/ BinaryToBase64
    \/ Deploy
    \/ DeployLogEnvelope
    \/ DeployPost
    \/ DeployLogResponse
    \/ DeployClassify

Spec == Init /\ [][Next]_vars

(* ------------------- OrgSpec: the OrgHandler's calls ------------------ *)

\* The read-path operations are one step each; they leave the files, the
\* logs and the deployment pipeline alone.

\* establish_connection, lines 28-44, called on the handler again.
EstablishConnectionAgain ==
    /\ \E c \in Sessions \cup {NoConn} : connection' = c
    /\ UNCHANGED <<fsVars, logVars, req, pc, callVars, result, orgVars,
                   encVars, partVars>>

\* run_soql_query_impl and run_sosl_search_impl, lines 81-121.  given:
\* whether the argument is there; o: what query_all or search and the
\* rendering of the results come to.
RunQuery(tool) ==
    /\ \E given \in BOOLEAN, o \in {"ok"} \cup QueryErrors :
         result' = IF ~given THEN Text(MissingArgument(tool))
                   ELSE IF ~connection.ok THEN Text(MsgNotEstablished)
                   ELSE IF o = "ok" THEN Text(ResultsText(tool))
                   ELSE ReadExcept(tool, Exc(o, None))
    /\ UNCHANGED <<connection, fsVars, logVars, req, pc, callVars, orgVars,
                   encVars, partVars>>

RunSoqlQuery == RunQuery(SoqlTool)

RunSoslSearch == RunQuery(SoslTool)

\* The record of one call of get_object_fields_cached: its argument, what
\* it found (the connection set, the name in the cache with its entry, what
\* lines 67-68 raised) and what it did (kept: the cache left as it was).
Call(name, conn, cache, d, got) ==
    [name |-> name, conn |-> conn.ok, hit |-> name \in DOMAIN cache,
     stored |-> IF name \in DOMAIN cache THEN cache[name] ELSE NoEntry,
     cause |-> IF got.attempted THEN d.exc ELSE None,
     attempted |-> got.attempted, described |-> got.described,
     out |-> got.out, value |-> got.value, exc |-> got.exc,
     kept |-> got.cache = cache]

\* get_object_fields_impl, lines 123-138.
GetObjectFields ==
    /\ Len(calls) < MaxCalls
    /\ \E name \in ObjectNames \cup {None}, d \in DescribeOutcomes :
         IF name = None
         THEN /\ result' = Text(MissingArgument(FieldsTool))
              /\ UNCHANGED orgVars
         ELSE LET got == GetObjectFieldsCached(connection, metadata_cache,
                                               name, d)
              IN  /\ metadata_cache' = got.cache
                  /\ calls' = Append(calls, Call(name, connection,
                                                 metadata_cache, d, got))
                  /\ result' = IF got.out = "returned"
                               THEN Text(ResultsText(FieldsTool))
                               ELSE ReadExcept(FieldsTool, got.exc)
    /\ UNCHANGED <<connection, fsVars, logVars, req, pc, callVars, encVars, partVars>>

\* describe_object_impl, lines 140-206: the description is fetched anew,
\* the cache is neither read nor written.
DescribeObject ==
    /\ \E name \in ObjectNames \cup {None}, d \in DescribeOutcomes :
         result' = IF name = None THEN Text(MissingArgument(DescribeTool))
                   ELSE IF ~connection.ok THEN Text(MsgNotEstablished)
                   ELSE IF d.at = "return" THEN Text(ResultsText(DescribeTool))
                   ELSE ReadExcept(DescribeTool, Exc(d.exc, None))
    /\ UNCHANGED <<connection, fsVars, logVars, req, pc, callVars, orgVars,
                   encVars, partVars>>

OrgNext ==
    \/ EstablishConnectionAgain
    \/ RunSoqlQuery
    \/ RunSoslSearch
    \/ GetObjectFields
    \/ DescribeObject

OrgSpec == Init /\ [][OrgNext]_vars

(* --------------------- EncSpec: the field encoder --------------------- *)

\* One member of json_obj["fields"] reaches the loop of line 268.
EncInit ==
    /\ Fresh
    /\ field \in FieldSpecs
    /\ NoInput({"json_obj", "substitution", "request"})

\* One pass of the loop body, lines 269-318.
EncodeField ==
    /\ ~encoded.done
    /\ encoded' = EncodeMetadataField(field)
    /\ UNCHANGED <<connection, fsVars, logVars, req, pc, callVars, result,
                   orgVars, field, partVars>>

EncNext == EncodeField

EncSpec == EncInit /\ [][EncNext]_vars

(* ---------------- EinSpec: the Einstein fields builder ---------------- *)

\* create_einstein_model_package is called with a json_obj.
EinInit ==
    /\ Fresh
    /\ json_obj \in JsonObjs
    /\ NoInput({"field", "substitution", "request"})

\* Lines 438-448: the fields array, then the value of ##outcome_label##
\* when building the array did not raise.
BuildFieldsJson ==
    /\ ~fields_json.done
    /\ fields_json' =
           BuildEinsteinFieldsJson(json_obj.fields, json_obj.outcome_field)
    /\ outcome_label' =
           IF fields_json'.raised THEN outcome_label
           ELSE SetupOutcomeLabel(json_obj.outcome_field)
    /\ UNCHANGED <<coreVars, json_obj, concVars, tmplVars, bridgeVars>>

EinNext == BuildFieldsJson

EinSpec == EinInit /\ [][EinNext]_vars

(* ------------- ObjSpec: custom objects and their fields --------------- *)

\* The fields a custom-object request is made with: a Text field, a
\* Picklist with and without picklist_values, a Lookup with and without
\* referenceTo.
RequestFields ==
    {f \in FieldSpecs :
        /\ f.label = "Status"
        /\ f.api_name = "Status__c"
        /\ f.defaultValue = Absent
        /\ f.relationshipLabel = Absent
        /\ f.relationshipName = Absent
        /\ \/ f.type = "Text" /\ f.picklist_values = NoList
                              /\ f.referenceTo = Absent
           \/ f.type = "Picklist" /\ f.referenceTo = Absent
                                  /\ f.picklist_values \in {NoList, <<"Open">>}
           \/ f.type = "Lookup" /\ f.picklist_values = NoList
                                /\ f.referenceTo \in {Absent, "Account"}}

\* Every request of the process is made with fields = [field].
ObjInit ==
    /\ Fresh
    /\ field \in RequestFields
    /\ NoInput({"json_obj", "substitution", "request"})

\* The loop of lines 268-323 raises exactly when the encoding of the field
\* does; a build that raises before the loop never reaches it.
FieldLoop ==
    LET raises == EncodeMetadataField(field).raised
    IN  /\ buildErr' = "encode_field" => raises
        /\ raises => buildErr' \in {"copytree", "rename", "field_tmpl",
                                    "encode_field"}

CreateMetadataPackageOfField == CreateMetadataPackage /\ FieldLoop

ObjNext ==
    \/ EstablishConnection
    \/ CreateObjectWithFields
    \/ CreateMetadataPackageOfField
    \/ ZipDirectory
    \/ BinaryToBase64
    \/ Deploy
    \/ DeployLogEnvelope
    \/ DeployPost
    \/ DeployLogResponse
    \/ DeployClassify

ObjSpec == ObjInit /\ [][ObjNext]_vars

(* ------------- ConcSpec: deployments of two processes ----------------- *)

\* Each process makes one deployment on an active connection; the steps of
\* the two interleave at the file operations.  The only failures are a
\* raising rmtree and what the other process's steps cause.
ConcInit == Init

InFlight(q) == proc[q].pc \notin {"idle", "done"}

\* Process p moves on to the step at.
Step(p, at) == proc' = [proc EXCEPT ![p].pc = at]

\* Lines 62-69 of create_object_with_fields_impl and 230-252 of
\* create_einstein_model_impl: the operation starts its build.
PStart(p) ==
    /\ proc[p].pc = "idle"
    /\ \E tool \in {ObjectTool, EinsteinTool} :
         LET others == {q \in Procs \ {p} :
                           InFlight(q) /\ proc[q].tool = tool}
         IN  proc' =
               [q \in Procs |->
                  IF q = p
                  THEN [IdleProc EXCEPT
                          !.pc = IF tool = ObjectTool THEN "rmtree"
                                 ELSE "clean",
                          !.tool = tool,
                          !.alone = (others = {})]
                  ELSE IF q \in others THEN [proc[q] EXCEPT !.alone = FALSE]
                  ELSE proc[q]]
    /\ UNCHANGED fsVars

\* Lines 247-250: rmtree of current, its error swallowed.
PRmtree(p) ==
    /\ proc[p].pc = "rmtree"
    /\ \E ok \in BOOLEAN, keep \in RmLeftovers(current) :
         LET rm == RmTree(current, ok, keep)
         IN  /\ current' = rm.dir
             /\ proc' = [proc EXCEPT
                           ![p].pc = "copytree",
                           ![p].rmFailed = (current.exists /\ rm.raised)]
    /\ UNCHANGED <<deployDir, packZip, deployZip>>

\* Line 255: copytree raises when current exists; the error is swallowed by
\* lines 382-385 and the operation goes on to create_send_to_server.
PCopytree(p) ==
    /\ proc[p].pc = "copytree"
    /\ IF current.exists
       THEN Step(p, "zip") /\ UNCHANGED current
       ELSE /\ current' = Dir(Stamp(ObjectTemplate, p))
            /\ Step(p, "rename")
    /\ UNCHANGED <<deployDir, packZip, deployZip>>

\* Line 260.
PRename(p) ==
    /\ proc[p].pc = "rename"
    /\ IF HasFile(current, PlaceholderObject)
       THEN /\ current' = RenameFile(current, PlaceholderObject, ObjectFile)
            /\ Step(p, "package_xml")
       ELSE Step(p, "zip") /\ UNCHANGED current
    /\ UNCHANGED <<deployDir, packZip, deployZip>>

\* Lines 338-339.
PPackageXml(p) ==
    /\ proc[p].pc = "package_xml"
    /\ IF current.exists
       THEN /\ current' = WriteFile(current, PackageXml, p)
            /\ Step(p, "object_descriptor")
       ELSE Step(p, "zip") /\ UNCHANGED current
    /\ UNCHANGED <<deployDir, packZip, deployZip>>

\* Lines 341-356: the object file read, substituted and written.
PObjectDescriptor(p) ==
    /\ proc[p].pc = "object_descriptor"
    /\ IF HasFile(current, ObjectFile)
       THEN /\ current' = WriteFile(current, ObjectFile, p)
            /\ Step(p, "profile")
       ELSE Step(p, "zip") /\ UNCHANGED current
    /\ UNCHANGED <<deployDir, packZip, deployZip>>

\* Lines 358-380: makedirs creates profiles and every directory above it.
PProfile(p) ==
    /\ proc[p].pc = "profile"
    /\ current' = WriteFile(IF current.exists THEN current ELSE Dir({}),
                            AdminProfile, p)
    /\ Step(p, "zip")
    /\ UNCHANGED <<deployDir, packZip, deployZip>>

\* zip_directory, lines 123-127: make_archive raises when current is
\* missing, and the operation ends.
PZip(p) ==
    /\ proc[p].pc = "zip"
    /\ IF current.exists
       THEN /\ packZip' = MakeArchive(current, p)
            /\ Step(p, "read")
       ELSE Step(p, "done") /\ UNCHANGED packZip
    /\ UNCHANGED <<current, deployDir, deployZip>>

\* _clean_deploy_dir, lines 14-19; its error ends the operation.
PClean(p) ==
    /\ proc[p].pc = "clean"
    /\ \E ok \in BOOLEAN, keep \in RmLeftovers(deployDir) :
         LET clean == CleanDeployDir(deployDir, ok, keep, TRUE)
         IN  /\ deployDir' = clean.dir
             /\ proc' = [proc EXCEPT
                           ![p].pc = IF clean.raised THEN "done"
                                     ELSE "einstein_copytree",
                           ![p].rmFailed = clean.raised]
    /\ UNCHANGED <<current, packZip, deployZip>>

\* Lines 413-416: makedirs and copytree, both tolerant of what exists.
PEinsteinCopytree(p) ==
    /\ proc[p].pc = "einstein_copytree"
    /\ deployDir' =
         Dir({f \in deployDir.files : f.path \notin EinsteinTemplate}
             \cup Stamp(EinsteinTemplate, p))
    /\ Step(p, "container")
    /\ UNCHANGED <<current, packZip, deployZip>>

\* The descriptor a step of lines 418-467 rewrites, and the step after it.
DescriptorOf(at) ==
    CASE at = "container" -> [path |-> ContainerJson, next |-> "setup"]
      [] at = "setup" -> [path |-> SetupJson, next |-> "template_info"]
      [] at = "template_info" ->
            [path |-> TemplateInfoJson, next |-> "einstein_package_xml"]

\* Lines 418-467: a descriptor read, substituted and written; a missing file
\* raises and ends the operation.
PDescriptor(p) ==
    /\ proc[p].pc \in {"container", "setup", "template_info"}
    /\ LET d == DescriptorOf(proc[p].pc)
       IN  IF HasFile(deployDir, d.path)
           THEN /\ deployDir' = WriteFile(deployDir, d.path, p)
                /\ Step(p, d.next)
           ELSE Step(p, "done") /\ UNCHANGED deployDir
    /\ UNCHANGED <<current, packZip, deployZip>>

\* Lines 470-479.
PEinsteinPackageXml(p) ==
    /\ proc[p].pc = "einstein_package_xml"
    /\ IF deployDir.exists
       THEN /\ deployDir' = WriteFile(deployDir, PackageXml, p)
            /\ Step(p, "walk")
       ELSE Step(p, "done") /\ UNCHANGED deployDir
    /\ UNCHANGED <<current, packZip, deployZip>>

\* deploy_package_from_deploy_dir, lines 578-594.
PWalk(p) ==
    /\ proc[p].pc = "walk"
    /\ IF deployDir.exists
       THEN /\ deployZip' = Archive(deployDir, p)
            /\ Step(p, "read")
       ELSE Step(p, "done") /\ UNCHANGED deployZip
    /\ UNCHANGED <<current, deployDir, packZip>>

\* binary_to_base64, lines 129-140, of the path's archive as it is now.
PRead(p) ==
    /\ proc[p].pc = "read"
    /\ LET file == IF proc[p].tool = ObjectTool THEN packZip ELSE deployZip
       IN  proc' = [proc EXCEPT
                      ![p].pc = "post",
                      ![p].b64 = [isNone |-> FALSE, entries |-> file.entries]]
    /\ UNCHANGED fsVars

\* deploy, lines 199-202: the POST of the envelope that carries b64.
PPost(p) ==
    /\ proc[p].pc = "post"
    /\ proc' = [proc EXCEPT
                  ![p].pc = "done",
                  ![p].sent = [done |-> TRUE, entries |-> proc[p].b64.entries]]
    /\ UNCHANGED fsVars

ConcStep(p) ==
    \/ PStart(p)
    \/ PRmtree(p)
    \/ PCopytree(p)
    \/ PRename(p)
    \/ PPackageXml(p)
    \/ PObjectDescriptor(p)
    \/ PProfile(p)
    \/ PZip(p)
    \/ PClean(p)
    \/ PEinsteinCopytree(p)
    \/ PDescriptor(p)
    \/ PEinsteinPackageXml(p)
    \/ PWalk(p)
    \/ PRead(p)
    \/ PPost(p)

ConcNext ==
    /\ \E p \in Procs : ConcStep(p)
    /\ UNCHANGED <<connection, logVars, req, pc, callVars, result, orgVars,
                   encVars, einVars, tmplVars, bridgeVars>>

ConcSpec == ConcInit /\ [][ConcNext]_vars

(* ---------------- SubSpec: placeholder substitution ------------------ *)

\* A template is about to be rendered with a set of values.
SubInit ==
    /\ Fresh
    /\ \E t \in Templates :
         \E v \in Substitutions(t) :
            substitution = [template |-> t, values |-> v]
    /\ NoInput({"field", "json_obj", "request"})

RenderTemplate ==
    /\ ~rendered.done
    /\ rendered' =
          [done |-> TRUE,
           text |-> Render(substitution.template, substitution.values)]
    /\ UNCHANGED <<coreVars, einVars, concVars, substitution, bridgeVars>>

SubNext == RenderTemplate

SubSpec == SubInit /\ [][SubNext]_vars

(* ----------------------- BridgeSpec: mcp_http ------------------------- *)

\* A request object reaches POST /mcp.
BridgeInit ==
    /\ Fresh
    /\ request \in Requests
    /\ NoInput({"field", "json_obj", "substitution"})

HandleMcpHttp ==
    /\ ~reply.answered
    /\ \E outcome \in ToolOutcomes : reply' = McpHttp(request, outcome)
    /\ UNCHANGED <<coreVars, einVars, concVars, tmplVars, request>>

BridgeNext == HandleMcpHttp

BridgeSpec == BridgeInit /\ [][BridgeNext]_vars

(* ------------------------------ claims -------------------------------- *)

\* deploy has ended in the request in flight.
DeployEnded == deployOut.kind # "none"

\* deploy raised the error it raises for an HTTP status of 400 or more.
FaultReported == deployOut.kind = "raised" /\ deployOut.exc.msg = MsgApiFailed

\* deploy raised the error it raises for a failed POST.
NetworkErrorReported == deployOut.kind = "raised" /\ deployOut.exc.msg = MsgNetwork

\* The POST of this request failed in the transport.
TransportFailed == posts # <<>> /\ posts[Len(posts)] \in TransportErrors

\* The POST of this request was answered.
Answered == posts # <<>> /\ posts[Len(posts)] = "response"

\* C1: deploy called with a session whose session id is empty (connection
\* object and instance host present) fails with an invalid-connection
\* error (where no log write failed first), and neither the envelope is
\* logged nor a POST issued.
C1_EmptySessionRejected ==
    (sf.ok /\ sf.session_id = "" /\ sf.sf_instance # "")
        => /\ deployLog.by # req.id
           /\ posts = <<>>
           /\ (DeployEnded /\ logFail = {})
                 => /\ deployOut.kind = "raised"
                    /\ deployOut.exc.msg = MsgInvalidConnection

C4_OnlyCurrentBuildPackaged ==
    zipped.done => \A f \in zipped.files : f.by = req.id

\* C5: deploy returns normally if and only if a POST was answered with a
\* status below 400, and raises its fault error for every status of 400 or
\* more.
C5_AcceptedIffBelow400 ==
    DeployEnded
        => /\ (deployOut = Returned) <=> (Answered /\ resp.status < FaultStatus)
           /\ (Answered /\ resp.status >= FaultStatus) => FaultReported

\* The bodies that hold a SOAP Fault element (an entry of the envelope's
\* Body), with the texts of its faultcode and faultstring children (None
\* for a child it does not have).
SoapFaultBodies ==
    {[body |-> BodySessionFault, code |-> "INVALID_SESSION_ID",
      string |-> "Invalid Session ID found"],
     [body |-> BodyDetailFault, code |-> None, string |-> ""]}

\* C6: for a response of status 400 or more whose body holds a SOAP Fault
\* element, the fault deploy reports carries the faultcode and faultstring
\* texts of that element and the HTTP status.
C6_FaultCarriesCodeAndString ==
    \A f \in SoapFaultBodies :
        (FaultReported /\ resp.body = f.body)
            => /\ resp.status >= FaultStatus
               /\ deployOut.exc.detail =
                     Detail("soap", f.code, f.string, resp.status, <<>>)

\* C6, witness: the fault of the session example, reported with status 500.
C6_Witness ==
    /\ FaultReported
    /\ resp = [status |-> 500, body |-> BodySessionFault]
    /\ deployOut.exc.detail.code = "INVALID_SESSION_ID"

\* C7: for a response of status 400 or more whose body is not XML, the
\* fault deploy reports carries an excerpt of the body.
C7_NotXmlCarriesExcerpt ==
    (FaultReported /\ ~resp.body.wf)
        => /\ deployOut.exc.detail.status = resp.status
           /\ deployOut.exc.detail.excerpt = Excerpt(resp.body.raw)
           /\ deployOut.exc.detail.excerpt # <<>>

\* C8: a transport failure of the POST makes deploy raise its network
\* error; the network error and the error for a status of 400 or more
\* differ, and neither is raised for the other's cause.
C8_NetworkErrorDistinct ==
    /\ TransportFailed => deployOut = Raised(Exc("ValueError", MsgNetwork))
    /\ NetworkErrorReported => TransportFailed
    /\ FaultReported => (Answered /\ resp.status >= FaultStatus)
    /\ ~(NetworkErrorReported /\ FaultReported)

\* C8, witness: a POST that timed out, reported as a network error.
C8_Witness ==
    /\ posts = <<"Timeout">>
    /\ NetworkErrorReported

\* What deploy reports for the answer its POST got, when its log writes
\* succeed.
OutcomeOfPost ==
    IF TransportFailed THEN Raised(Exc("ValueError", MsgNetwork))
    ELSE IF resp.status >= FaultStatus
    THEN Raised([type |-> "ValueError", msg |-> MsgApiFailed,
                 detail |-> FaultMessage(resp)])
    ELSE Returned

\* C9: when the write of deploy.log or of deploy_http.log fails, the POST is
\* still issued and deploy reports what it reports when the writes succeed.
C9_LogsBestEffort ==
    (DeployEnded /\ logFail # {})
        => /\ posts # <<>>
           /\ deployOut = OutcomeOfPost

\* C10: a deployment tool operation returns a text result for every
\* outcome and never raises to the dispatch layer.
C10_NeverRaises ==
    result.kind # "raised"

\* The error e reached the operation's caller: raised to the dispatch layer
\* by the custom-object operation, caught and rendered by the Einstein one.
Propagated(e) ==
    \/ result = Raised(e)
    \/ req.tool = EinsteinTool /\ result = ErrorResult(EinsteinError, e)

C12_DescribeOncePerName ==
    /\ \A i \in 1..Len(calls) : \A j \in 1..Len(calls) :
          (i < j /\ calls[i].name = calls[j].name /\ calls[i].out = "returned")
              => ~calls[j].described
    /\ \A n \in ObjectNames :
          LET ok == {i \in 1..Len(calls) :
                        calls[i].name = n /\ calls[i].out = "returned"}
          IN  ok # {} => Cardinality({i \in ok : calls[i].described}) = 1

\* C12, witness: two calls for one name that both returned, the second
\* with the entry the first one stored.
C12_Witness ==
    /\ Len(calls) = 2
    /\ calls[1].name = calls[2].name
    /\ calls[1].out = "returned"
    /\ calls[2].out = "returned"
    /\ calls[2].value = calls[1].value

\* C13: a call of get_object_fields_cached for a name that is in the cache
\* returns the stored entry and does not reach describe, whatever the
\* connection.
C13_CacheHitReturnsEntry ==
    \A i \in 1..Len(calls) :
        calls[i].hit
            => /\ calls[i].out = "returned"
               /\ calls[i].value = calls[i].stored
               /\ ~calls[i].attempted
               /\ ~calls[i].described

\* C14: a step never removes an entry from the metadata cache nor changes
\* its value.
C14_CacheOnlyGrows ==
    [][\A n \in DOMAIN metadata_cache :
          /\ n \in DOMAIN metadata_cache'
          /\ metadata_cache'[n] = metadata_cache[n]]_vars

\* C14, witness: both names cached, the connection unset since.
C14_Witness ==
    /\ DOMAIN metadata_cache = ObjectNames
    /\ ~connection.ok

C16_ReadPathReturnsText ==
    /\ result.kind \in {"none", "text"}
    /\ result.kind = "text" => result.text \in ReadTexts

\* C16, witness: a query that failed in the transport, rendered as text.
C16_Witness ==
    result = ErrorResult(ErrorText(SoqlTool), Exc("ConnectionError", None))

\* The archive the request in flight wrote.
ArchiveWritten == IF req.tool = ObjectTool THEN packZip ELSE deployZip

\* C17: the entry names of the archive written from a staging tree are the
\* paths of the tree's files relative to the staging root, and nothing
\* else.
C17_EntriesAreFilePaths ==
    (zipped.done /\ ArchiveWritten.exists)
        => {e.path : e \in ArchiveWritten.entries}
               = {f.path : f \in zipped.files}

\* The request in flight got past the operation's own checks.
Accepted == mylog # <<>> /\ mylog[Len(mylog)] = req.id

\* The archive of the request in flight was written and not read back.
Unreadable == zipped.done /\ b64.isNone /\ pc # "binary_to_base64"

\* C18: packaging a staging directory that does not exist raises
\* FileNotFoundError, and an archive that cannot be read back ends the
\* operation in an error; in both cases no envelope is logged and no POST
\* issued.
C18_PackagingFailures ==
    /\ (req.tool = ObjectTool /\ Accepted /\ pc = "idle" /\ ~current.exists)
          => /\ result.kind = "raised"
             /\ result.exc.type = "FileNotFoundError"
             /\ ~zipped.done
             /\ posts = <<>>
             /\ deployLog.by # req.id
    /\ Unreadable
          => /\ pc \in {"deploy", "idle"}
             /\ posts = <<>>
             /\ deployLog.by # req.id
             /\ pc = "idle"
                   => /\ result.exc # NoExc
                      /\ Propagated(result.exc)
                      /\ result.text # Initiated

\* C18, witness: an archive gone before it was read, refused by deploy as
\* invalid package data.
C18_Witness ==
    /\ Unreadable
    /\ pc = "idle"
    /\ deployOut.kind = "raised"
    /\ deployOut.exc.msg = MsgInvalidPackage

\* The value blocks of a fragment, in document order.
ValueBlocksOf(fragment) ==
    SelectSeq(DescSeq(fragment), LAMBDA e : e.tag = "value")

\* C19: the fragment of a Picklist field holds one value block per entry of
\* picklist_values, in the order of the entries, duplicates kept, each with
\* fullName and label the entry and default false.
C19_PicklistValueBlocks ==
    (encoded.done /\ field.type = "Picklist"
        /\ Absent \notin {field.label, field.api_name}
        /\ field.picklist_values # NoList)
        => /\ ~encoded.raised
           /\ LET blocks == ValueBlocksOf(encoded.type_def)
                  values == field.picklist_values
              IN  /\ Len(blocks) = Len(values)
                  /\ \A i \in 1..Len(values) :
                        /\ FindText(blocks[i], "fullName") = values[i]
                        /\ FindText(blocks[i], "label") = values[i]
                        /\ FindText(blocks[i], "default") = "false"

\* C19, witness: a picklist with the same value twice.
C19_Witness ==
    /\ encoded.done
    /\ field.type = "Picklist"
    /\ field.picklist_values = <<"Open", "Open">>
    /\ Len(ValueBlocksOf(encoded.type_def)) = 2

\* The types of a FieldSpec.
KnownTypes == {"Text", "Number", "Lookup", "LongText", "Picklist",
               "Checkbox", "URL"}

\* C20: a field whose type is none of the known ones (a type of None
\* included) is encoded as the Number fragment of precision 18 and scale 0,
\* and a field of a known type other than Number is not.
C20_NumberFallback ==
    (encoded.done /\ Absent \notin {field.label, field.type, field.api_name})
        => /\ field.type \notin KnownTypes
                 => ~encoded.raised /\ encoded.type_def = NumberTypeDef
           /\ field.type \in KnownTypes \ {"Number"}
                 => encoded.type_def # NumberTypeDef

\* The elements of a fragment that carry the tag.
TagsOf(fragment, tag) ==
    SelectSeq(DescSeq(fragment), LAMBDA e : e.tag = tag)

\* C21: the fragment of a Lookup field holds one referenceTo tag; it holds a
\* relationshipLabel tag exactly when the field supplies a non-empty
\* relationshipLabel, with that text, and a relationshipName tag exactly when
\* it supplies a non-empty relationshipName, with that text; no relationship
\* tag is empty.
C21_LookupRelationshipTags ==
    (encoded.done /\ field.type = "Lookup"
        /\ Absent \notin {field.label, field.api_name})
        => /\ ~encoded.raised
           /\ Len(TagsOf(encoded.type_def, "referenceTo")) = 1
           /\ \A key \in {"relationshipLabel", "relationshipName"} :
                 LET tags == TagsOf(encoded.type_def, key)
                     supplied == field[key] \notin {Absent, ""}
                 IN  /\ Len(tags) = IF supplied THEN 1 ELSE 0
                     /\ \A i \in 1..Len(tags) :
                           tags[i].text = field[key] /\ tags[i].text # ""

\* C21, witness: a Lookup field with a relationship label, an empty
\* relationship name and a referenceTo, encoded with the label's tag only.
C21_Witness ==
    /\ encoded.done
    /\ ~encoded.raised
    /\ field.type = "Lookup"
    /\ field.relationshipLabel = "Accounts"
    /\ field.relationshipName = ""
    /\ Len(TagsOf(encoded.type_def, "relationshipLabel")) = 1
    /\ Len(TagsOf(encoded.type_def, "relationshipName")) = 0

\* The keys of a JSON object and the value under one of them.
Keys(obj) == {obj.members[i][1] : i \in 1..Len(obj.members)}
Member(obj, key) ==
    LET i == CHOOSE i \in 1..Len(obj.members) : obj.members[i][1] = key
    IN  obj.members[i][2]

\* The Text shape and the Number bucketing shape of an entry.
TextKeys == {"type", "balanced", "dataType", "highCardinality", "ignored",
             "includeOther", "label", "name", "ordering", "sensitive",
             "source", "values"}
NumberKeys == {"type", "bucketingStrategy", "highCardinality", "ignored",
               "label", "name", "sensitive", "source", "max", "min"}

IsTextShape(obj, data_type) ==
    /\ Keys(obj) = TextKeys
    /\ Len(obj.members) = Cardinality(TextKeys)
    /\ Member(obj, "type") = JStr(Py("Text"))
    /\ Member(obj, "dataType") = JStr(data_type)

IsNumberShape(obj) ==
    /\ Keys(obj) = NumberKeys
    /\ Len(obj.members) = Cardinality(NumberKeys)
    /\ Member(obj, "type") = JStr(Py("Number"))
    /\ LET b == Member(obj, "bucketingStrategy")
       IN  /\ Keys(b) = {"type", "numberOfBuckets"}
           /\ Member(b, "type") = JStr(Py("Percentile"))
           /\ Member(b, "numberOfBuckets") = JLit("10")
    /\ Member(obj, "min") = JLit("0")
    /\ Member(obj, "max") = JLit("10000000000")

\* C22: for n model fields that have their four required keys, the array of
\* build_einstein_fields_json has n+1 entries: the first is the outcome field
\* in the Text shape (dataType Categorical), and entry i+1 carries the name
\* and label of field i, in the Text shape with the field's data_type for
\* field_type Text, in the Number bucketing shape for Number, and in the
\* Text shape with dataType Categorical for any other field_type.
C22_FieldsArray ==
    LET fields == json_obj.fields
        array == fields_json.array
    IN  (fields_json.done
            /\ \A i \in 1..Len(fields) : fields[i].field_type # NoList)
        => /\ ~fields_json.raised
           /\ Len(array) = Len(fields) + 1
           /\ IsTextShape(array[1], Py("Categorical"))
           /\ Member(array[1], "name") = JStr(json_obj.outcome_field)
           /\ \A i \in 1..Len(fields) :
                LET f == fields[i]
                    obj == array[i + 1]
                IN  /\ Member(obj, "name") = JStr(f.field_name)
                    /\ Member(obj, "label") = JStr(f.field_label)
                    /\ CASE f.field_type = Py("Text") ->
                                IsTextShape(obj, f.data_type)
                         [] f.field_type = Py("Number") -> IsNumberShape(obj)
                         [] OTHER -> IsTextShape(obj, Py("Categorical"))

\* C22, witness: a Number field followed by a field of another type, both
\* declared Numerical, built into an array of three entries.
C22_Witness ==
    /\ fields_json.done
    /\ ~fields_json.raised
    /\ Len(json_obj.fields) = 2
    /\ json_obj.fields[1].field_type = Py("Number")
    /\ json_obj.fields[2].field_type = Py("Date")
    /\ json_obj.fields[2].data_type = Py("Numerical")
    /\ Len(fields_json.array) = 3
    /\ IsNumberShape(fields_json.array[2])

\* A field that violates the FieldSpec invariant.
InvalidFieldSpec(f) ==
    \/ f.type = "Picklist" /\ f.picklist_values = NoList
    \/ f.type = "Lookup" /\ f.referenceTo = Absent

\* C23: a custom-object request whose field is a Picklist without
\* picklist_values or a Lookup without referenceTo issues no POST, and ends
\* with an error rather than with the text of an initiated deployment.
C23_InvalidSpecNotDeployed ==
    (InvalidFieldSpec(field) /\ req.tool = ObjectTool /\ connection.ok)
        => /\ posts = <<>>
           /\ pc = "idle" => result # Text(Initiated)

\* Process p posted an archive that holds a file another process wrote.
SentForeign(p) ==
    /\ proc[p].sent.done
    /\ \E e \in proc[p].sent.entries : e.by # p

\* C24: a deployment that was the only one in flight on its staging path
\* from its start to its POST posts an archive that holds its own files
\* only.
C24_AloneSendsOwnContent ==
    \A p \in Procs : proc[p].alone => ~SentForeign(p)

\* C24, the concurrent half, a state that is reached: a deployment that
\* overlapped with another one on its staging path has posted a file of the
\* other, no rmtree having raised.
C24_Interleaved ==
    \E p \in Procs :
        /\ ~proc[p].alone
        /\ \A q \in Procs : ~proc[q].rmFailed
        /\ SentForeign(p)

\* C24, the sequential half without the failure of claim C4: a deployment
\* that was alone on its path and whose rmtree did not raise posts its own
\* files only.
C24_AloneAndCleared ==
    \A p \in Procs :
        (proc[p].alone /\ ~proc[p].rmFailed) => ~SentForeign(p)

\* C25: no request issues more than one POST, whatever the POST's outcome:
\* after a transport error, a fault or an accepted response the operation
\* ends without another one.
C25_AtMostOnePost == Len(posts) <= 1

\* C25, witness: an operation that ended after one POST that was answered
\* with a fault.
C25_Witness ==
    /\ pc = "idle"
    /\ Len(posts) = 1
    /\ resp.status >= FaultStatus
    /\ FaultReported

\* The sequence in reverse.
Reverse(seq) == [i \in 1..Len(seq) |-> seq[Len(seq) + 1 - i]]

\* Every marker of the text replaced by its key's value, the values left as
\* they are.
RECURSIVE Simultaneous(_, _)
Simultaneous(text, values) ==
    IF text = <<>> THEN <<>>
    ELSE IF \E k \in DOMAIN values :
                Len(text) >= 3 /\ SubSeq(text, 1, 3) = Token(k)
    THEN values[text[2]] \o Simultaneous(SubSeq(text, 4, Len(text)), values)
    ELSE <<Head(text)>> \o Simultaneous(Tail(text), values)

\* C26: the rendered text of a template is the template with every marker
\* replaced by its key's value as supplied, a value that holds a marker
\* included, and the replace calls made in the reverse order give the same
\* text.
C26_OrderIndependent ==
    rendered.done =>
        LET t == substitution.template
            values == substitution.values
        IN  /\ rendered.text = Simultaneous(TemplateText(t), values)
            /\ rendered.text =
                  ReplaceAll(TemplateText(t), Reverse(ReplaceOrder(t)), values)

\* C26 for values that hold no marker.
C26_PlainValues ==
    (rendered.done
        /\ substitution.values
              = [k \in KeysOf(substitution.template) |-> PlainValue(k)])
        => C26_OrderIndependent

\* C27: a deployment tool called without an active connection, and any
\* call of one that ends at once, returns one of the two refusal texts and
\* leaves the staging directories, the archives and the four log files as
\* they were, without a POST.
C27_RefusalHasNoEffect ==
    [][(req'.id # req.id /\ (~connection.ok \/ pc' = "idle"))
        => /\ pc' = "idle"
           /\ result' \in {Text(NotActive), Text(MissingRequired)}
           /\ ~connection.ok /\ req'.tool = ObjectTool
                 => result' = Text(NotActive)
           /\ UNCHANGED <<fsVars, logVars>>
           /\ posts' = <<>>]_vars

\* C27, witness: the Einstein tool refused a call for a missing argument
\* after a deployment had left its staging directory, archive and logs.
C27_Witness ==
    /\ pc = "idle"
    /\ req = [id |-> 2, tool |-> EinsteinTool]
    /\ result = Text(MissingRequired)
    /\ connection.ok
    /\ current.exists
    /\ packZip.exists
    /\ mylog = <<1>>
    /\ posts = <<>>

\* C28: no step of a custom-object request changes deployment_package or
\* deploy_package.zip, and no step of an Einstein request changes current
\* or pack.zip.
C28_PathsKeepApart ==
    [][/\ req'.tool = ObjectTool => UNCHANGED <<deployDir, deployZip>>
       /\ req'.tool = EinsteinTool => UNCHANGED <<current, packZip>>]_vars

\* C28, witness: an Einstein deployment was posted after a custom-object
\* deployment, whose staging directory and archive are as it left them.
C28_Witness ==
    /\ req = [id |-> 2, tool |-> EinsteinTool]
    /\ posts # <<>>
    /\ deployZip.exists /\ deployZip.by = 2
    /\ packZip.exists /\ packZip.by = 1
    /\ current.exists /\ \A f \in current.files : f.by = 1
    /\ deployDir.exists

\* The request is one of the four the claim names, apart from a raising
\* tool: a wrong version, an unknown method, an unknown tool name.
Rejected(r) ==
    \/ r.jsonrpc # "2.0"
    \/ r.method \notin {"initialize", "tools/list", "tools/call"}
    \/ /\ r.method = "tools/call"
       /\ r.params # "list"
       /\ (r.params = Absent \/ r.name \notin BridgeTools)

\* C29: mcp_http answers every request object with HTTP status 200 and a
\* JSON-RPC 2.0 body that carries the request's id (None when it has none)
\* and exactly one of result and error; a wrong version, an unknown method,
\* an unknown tool name and a tool's exception give an error of code -32000.
C29_AlwaysJsonRpc ==
    reply.answered =>
        /\ reply.status = 200
        /\ reply.jsonrpc = "2.0"
        /\ reply.id = Get(request.id, None)
        /\ reply.keys \in {{"result"}, {"error"}}
        /\ reply.keys = {"error"} => reply.code = ServerError
        /\ Rejected(request) => reply.keys = {"error"}
        /\ reply.payload = MsgApiFailed => reply.keys = {"error"}

\* C29, witness: a call of an unknown tool answered with the error object.
C29_Witness ==
    /\ reply.answered
    /\ request.jsonrpc = "2.0"
    /\ request.method = "tools/call"
    /\ request.params = "dict"
    /\ request.name = "drop_table"
    /\ request.id = "7"
    /\ reply.keys = {"error"}
    /\ reply.code = ServerError
    /\ reply.id = "7"

\* The custom suffix, and the name without it, its underscores as spaces.
CustomSuffix == <<"_", "_", "c">>

EndsWith(name, suffix) ==
    /\ Len(name) >= Len(suffix)
    /\ SubSeq(name, Len(name) - Len(suffix) + 1, Len(name)) = suffix

LabelOf(name) ==
    Replace(SubSeq(name, 1, Len(name) - Len(CustomSuffix)), <<"_">>, <<" ">>)

\* C30: for an outcome_field that ends in __c, the label of the first entry
\* of the fields array and the value given to ##outcome_label## are both
\* the field's name without the suffix, its other underscores replaced by
\* spaces.
C30_OutcomeLabel ==
    (fields_json.done /\ ~fields_json.raised
        /\ EndsWith(json_obj.outcome_field, CustomSuffix))
        => /\ Member(fields_json.array[1], "label")
                 = JStr(LabelOf(json_obj.outcome_field))
           /\ outcome_label = LabelOf(json_obj.outcome_field)

\* C30, its last part: the two uses carry the same label.
C30_SameLabel ==
    (fields_json.done /\ ~fields_json.raised)
        => Member(fields_json.array[1], "label") = JStr(outcome_label)

==========================================================================
